---- MODULE Spec2Model ----
(***************************************************************************)
(* Model of the SQL safety gate and its two callers in the Queriums        *)
(* NL -> SQL explorer:                                                      *)
(*   src/app_streamlit_upload_db_ui.py  FORBIDDEN, enforce_read_only,       *)
(*                                      extract_sql, "Ask Questions" page   *)
(*   src/integration.py                 is_select_only, fetch_all, the      *)
(*                                      "Query" tab                         *)
(* A text is a sequence of one-character strings, so that the regular       *)
(* expressions of the source are modelled position by position.             *)
(***************************************************************************)
EXTENDS Naturals, Integers, Sequences, FiniteSets, TLC

VARIABLES
    \* enforce_read_only called on its own
    gIn,       \* the argument sql
    gOut,      \* outcome of the call on gIn
    gOut2,     \* outcome of the call on the statement the first call returned
    gpc,       \* "start", "validated", "revalidated"
    \* extract_sql called on its own
    xIn,       \* the argument text
    xOut,      \* the value returned
    xpc,       \* "start", "extracted"
    \* the "Ask Questions" page (one script run per click)
    question,  \* st.text_area value
    raw,       \* response.generations[0].text
    sql,       \* the local variable sql
    verdict,   \* what enforce_read_only did in this run
    executed,  \* statements handed to pd.read_sql(sql, conn) in this run
    shown,     \* last element the run displayed
    seen,      \* error displays of the session, each with what caused it
    apc,       \* "idle", "schema", "generate", "enforce", "read", "results", "done"
    \* the "Query" tab of the SQLite-file explorer
    qText,     \* st.text_area value q
    fetched,   \* statements handed to fetch_all(conn, q) in this run
    qShown,    \* what the tab displayed
    qpc        \* "idle", "ran"

gateVars == <<gIn, gOut, gOut2, gpc>>
extractVars == <<xIn, xOut, xpc>>
askVars == <<question, raw, sql, verdict, executed, shown, seen, apc>>
queryVars == <<qText, fetched, qShown, qpc>>
vars == <<gateVars, extractVars, askVars, queryVars>>

(***************************************************************************)
(* Characters                                                              *)
(***************************************************************************)
LowerLetters == <<"a","b","c","d","e","f","g","h","i","j","k","l","m",
                  "n","o","p","q","r","s","t","u","v","w","x","y","z">>
UpperLetters == <<"A","B","C","D","E","F","G","H","I","J","K","L","M",
                  "N","O","P","Q","R","S","T","U","V","W","X","Y","Z">>
Digits == {"0","1","2","3","4","5","6","7","8","9"}

Range(f) == {f[i] : i \in DOMAIN f}

\* what \s matches and what str.strip()/rstrip() remove
WS == {" ", "\t", "\n", "\r", "\f"}

\* what \w matches
WordChars == Range(LowerLetters) \cup Range(UpperLetters) \cup Digits \cup {"_"}

\* \b is a change of IsWord between neighbours
IsWord(c) == c \in WordChars

\* upper-case partner of each lower-case letter, and the reverse
UpperOf == [c \in Range(LowerLetters) |->
              UpperLetters[CHOOSE i \in DOMAIN LowerLetters : LowerLetters[i] = c]]
LowerOf == [c \in Range(UpperLetters) |->
              LowerLetters[CHOOSE i \in DOMAIN UpperLetters : UpperLetters[i] = c]]

\* re.IGNORECASE compares letters after case folding
Fold(c) == IF c \in DOMAIN UpperOf THEN UpperOf[c] ELSE c

\* str.lower() on one character
LowerChar(c) == IF c \in DOMAIN LowerOf THEN LowerOf[c] ELSE c

(***************************************************************************)
(* Regular-expression primitives                                           *)
(***************************************************************************)
\* \b between s[i] and s[i+1], i in 0..Len(s)
Boundary(s, i) ==
    (i >= 1 /\ IsWord(s[i])) # (i < Len(s) /\ IsWord(s[i + 1]))

\* the literal lit matches s at position i (1-based), ignoring case
MatchLitAt(s, i, lit) ==
    /\ i + Len(lit) - 1 <= Len(s)
    /\ \A k \in 1..Len(lit) : Fold(s[i + k - 1]) = Fold(lit[k])

\* the literal lit matches s at position i exactly (no flags)
MatchExactAt(s, i, lit) ==
    /\ i + Len(lit) - 1 <= Len(s)
    /\ \A k \in 1..Len(lit) : s[i + k - 1] = lit[k]

\* \blit\b matches somewhere in s (re.search, IGNORECASE)
WholeWordAt(s, i, lit) ==
    /\ MatchLitAt(s, i, lit)
    /\ Boundary(s, i - 1)
    /\ Boundary(s, i - 1 + Len(lit))

HasWholeWord(s, lit) == \E i \in 1..Len(s) : WholeWordAt(s, i, lit)

\* str.count(c)
Count(s, c) == Cardinality({i \in 1..Len(s) : s[i] = c})

\* number of leading whitespace characters (what a leading \s* consumes)
LeadWS(s) ==
    IF \A i \in 1..Len(s) : s[i] \in WS THEN Len(s)
    ELSE (CHOOSE i \in 1..Len(s) : s[i] \notin WS /\ \A j \in 1..(i - 1) : s[j] \in WS) - 1

\* length of s once trailing characters of the set cs are removed
RKeep(s, cs) ==
    IF \A i \in 1..Len(s) : s[i] \in cs THEN 0
    ELSE CHOOSE i \in 1..Len(s) : s[i] \notin cs /\ \A j \in (i + 1)..Len(s) : s[j] \in cs

\* str.rstrip()
RStrip(s) == SubSeq(s, 1, RKeep(s, WS))

\* str.rstrip(";")
RStripSemi(s) == SubSeq(s, 1, RKeep(s, {";"}))

\* str.strip()
Strip(s) == SubSeq(s, LeadWS(s) + 1, RKeep(s, WS))

(***************************************************************************)
(* SQL safety: FORBIDDEN and enforce_read_only                              *)
(***************************************************************************)
KwSELECT == <<"S","E","L","E","C","T">>
KwLIMIT == <<"L","I","M","I","T">>

\* the keywords named by FORBIDDEN
ForbiddenKeywords == {
    <<"I","N","S","E","R","T">>,
    <<"U","P","D","A","T","E">>,
    <<"D","E","L","E","T","E">>,
    <<"A","L","T","E","R">>,
    <<"D","R","O","P">>,
    <<"T","R","U","N","C","A","T","E">>,
    <<"V","A","C","U","U","M">>,
    <<"C","R","E","A","T","E">>,
    <<"G","R","A","N","T">>,
    <<"R","E","V","O","K","E">>,
    <<"C","O","P","Y">> }

\* the alternatives inside \b( ... )\b of FORBIDDEN: the keywords, ';' and '$$'
ForbiddenAlternatives == ForbiddenKeywords \cup {<<";">>, <<"$","$">>}

\* FORBIDDEN compiled without re.IGNORECASE
ForbiddenSearchCaseSensitive(s) ==
    \E a \in ForbiddenAlternatives : \E i \in 1..Len(s) :
        MatchExactAt(s, i, a) /\ Boundary(s, i - 1) /\ Boundary(s, i - 1 + Len(a))

\* FORBIDDEN written without the two \b: a plain substring search
ForbiddenSearchSubstring(s) ==
    \E a \in ForbiddenAlternatives : \E i \in 1..Len(s) : MatchLitAt(s, i, a)

\* FORBIDDEN.search(sql)
ForbiddenSearch(s) == \E a \in ForbiddenAlternatives : HasWholeWord(s, a)

\* the pattern ^\s*SELECT without the closing \b
StartsWithSelectPrefix(s) == MatchLitAt(s, LeadWS(s) + 1, KwSELECT)

\* re.match(r"^\s*SELECT\b", sql, re.IGNORECASE)
StartsWithSelect(s) ==
    /\ MatchLitAt(s, LeadWS(s) + 1, KwSELECT)
    /\ Boundary(s, LeadWS(s) + Len(KwSELECT))

\* re.search(r"\bLIMIT\b", sql, re.IGNORECASE)
HasLimit(s) == HasWholeWord(s, KwLIMIT)

\* the suffix " LIMIT 100"
LimitSuffix == <<" ","L","I","M","I","T"," ","1","0","0">>

\* the suffix appended without removing the terminator
AppendLimitKeepTerminator(s) == RStrip(s) \o LimitSuffix

\* the suffix appended without its leading space
AppendLimitNoSpace(s) == RStripSemi(RStrip(s)) \o Tail(LimitSuffix)

\* sql.rstrip().rstrip(";") + " LIMIT 100"
AppendLimit(s) == RStripSemi(RStrip(s)) \o LimitSuffix

ErrForbidden == "Forbidden keywords detected in SQL"
ErrMulti == "Multiple statements detected; only SELECT allowed"
ErrNotSelect == "Only SELECT queries allowed"

Raise(msg) == [ok |-> FALSE, sql |-> <<>>, err |-> msg]
Return(s) == [ok |-> TRUE, sql |-> s, err |-> ""]

\* enforce_read_only(sql): the ValueError raised or the statement returned
enforce_read_only(s) ==
    IF ForbiddenSearch(s) THEN Raise(ErrForbidden)
    ELSE IF Count(s, ";") > 1 THEN Raise(ErrMulti)
    ELSE IF ~StartsWithSelect(s) THEN Raise(ErrNotSelect)
    ELSE IF ~HasLimit(s) THEN Return(AppendLimit(s))
    ELSE Return(s)

(***************************************************************************)
(* Inputs: texts built from a few fragments                                 *)
(***************************************************************************)
RECURSIVE Flatten(_)
Flatten(ss) == IF ss = <<>> THEN <<>> ELSE Head(ss) \o Flatten(Tail(ss))

SeqsUpTo(S, n) == UNION {[1..k -> S] : k \in 0..n}

TextsOver(S, n) == {Flatten(ss) : ss \in SeqsUpTo(S, n)}

MaxSqlAtoms == 4

SqlAtoms == {
    <<"S","E","L","E","C","T">>,
    <<"s","e","l","e","c","t">>,
    <<"D","R","O","P">>,
    <<"c","r","e","a","t","e">>,
    <<"l","i","m","i","t">>,
    <<" ">>, <<";">>, <<"x">>, <<"$">> }

\* statements the specification and the claims name
ExCreateDate == <<"S","E","L","E","C","T"," ","c","r","e","a","t","e","_","d","a","t","e"," ","F","R","O","M"," ","e","v","e","n","t","s">>
ExOrders == <<"S","E","L","E","C","T"," ","*"," ","F","R","O","M"," ","o","r","d","e","r","s">>
ExStackedDrop == <<"s","e","l","e","c","t"," ","*"," ","f","r","o","m"," ","t",";"," ","D","R","O","P"," ","T","A","B","L","E"," ","t">>
ExTwoSelects == <<"S","E","L","E","C","T"," ","1",";"," ","S","E","L","E","C","T"," ","2">>
ExUpdate == <<" "," ","u","p","d","a","t","e"," ","t"," ","s","e","t"," ","x","=","1">>
ExLimit5 == <<"S","E","L","E","C","T"," ","*"," ","F","R","O","M"," ","t"," ","L","I","M","I","T"," ","5">>
ExDeleteFlag == <<"S","E","L","E","C","T"," ","d","e","l","e","t","e","_","f","l","a","g",";","x"," ","F","R","O","M"," ","t">>
ExWithSeparator == <<"W","I","T","H"," ","x",";","y">>
ExSpacedTerminator == <<"S","E","L","E","C","T"," ","x"," ",";">>
ExParenthesis == <<"(","S","E","L","E","C","T"," ","1",")">>
ExWith == <<"W","I","T","H"," ","a"," ","A","S"," ","(","S","E","L","E","C","T"," ","1",")"," ","S","E","L","E","C","T"," ","*"," ","F","R","O","M"," ","a">>
ExDollarQuoted == <<"S","E","L","E","C","T"," ","a","$","$","b">>

SqlExamples == {ExSpacedTerminator, ExParenthesis, ExWith, ExDollarQuoted,
    ExCreateDate, ExOrders, ExStackedDrop, ExTwoSelects, ExUpdate, ExLimit5, ExDeleteFlag, ExWithSeparator}

SqlTexts == TextsOver(SqlAtoms, MaxSqlAtoms) \cup SqlExamples

None == [ok |-> FALSE, sql |-> <<>>, err |-> "not called"]

(***************************************************************************)
(* The gate on its own: one call, then a call on what it returned           *)
(***************************************************************************)
GateIdle ==
    /\ gIn = <<>>
    /\ gOut = None
    /\ gOut2 = None
    /\ gpc = "unused"

ExtractIdle ==
    /\ xIn = <<>>
    /\ xOut = <<>>
    /\ xpc = "unused"

NothingShown == [call |-> "none", label |-> "", text |-> <<>>]

AskIdle ==
    /\ question = ""
    /\ raw = <<>>
    /\ sql = <<>>
    /\ verdict = None
    /\ executed = <<>>
    /\ shown = NothingShown
    /\ seen = {}
    /\ apc = "unused"

QueryIdle ==
    /\ qText = <<>>
    /\ fetched = <<>>
    /\ qShown = "nothing"
    /\ qpc = "unused"

InitGate ==
    /\ gIn \in SqlTexts
    /\ gOut = None
    /\ gOut2 = None
    /\ gpc = "start"
    /\ ExtractIdle /\ AskIdle /\ QueryIdle

Validate ==
    /\ gpc = "start"
    /\ gOut' = enforce_read_only(gIn)
    /\ gpc' = "validated"
    /\ UNCHANGED <<gIn, gOut2, extractVars, askVars, queryVars>>

Revalidate ==
    /\ gpc = "validated"
    /\ gOut.ok
    /\ gOut2' = enforce_read_only(gOut.sql)
    /\ gpc' = "revalidated"
    /\ UNCHANGED <<gIn, gOut, extractVars, askVars, queryVars>>

NextGate == Validate \/ Revalidate

SpecGate == InitGate /\ [][NextGate]_vars

(***************************************************************************)
(* extract_sql                                                              *)
(***************************************************************************)
\* the backtick character (written by name)
Backtick == "BACKTICK"

FenceOpen == <<Backtick,Backtick,Backtick,"s","q","l">>
FenceClose == <<Backtick,Backtick,Backtick>>

\* number of whitespace characters of s from position p on (what \s* can consume)
WsRun(s, p) == LeadWS(SubSeq(s, p, Len(s)))

\* positions from p on where the closing fence (three backticks) matches
ClosesFrom(s, p) == {e \in p..Len(s) : MatchLitAt(s, e, FenceClose)}

\* the pattern (fence)sql\s*(.*?)(fence) matches starting at position i
FenceMatchesAt(s, i) ==
    /\ MatchLitAt(s, i, FenceOpen)
    /\ \E w \in 0..WsRun(s, i + 6) : ClosesFrom(s, i + 6 + w) # {}

Min(S) == CHOOSE x \in S : \A y \in S : x <= y
Max(S) == CHOOSE x \in S : \A y \in S : x >= y

\* group(1) with a greedy (.*) in place of (.*?)
FenceGroupGreedy(s, i) ==
    LET w == Max({v \in 0..WsRun(s, i + 6) : ClosesFrom(s, i + 6 + v) # {}})
        e == Max(ClosesFrom(s, i + 6 + w))
    IN  SubSeq(s, i + 6 + w, e - 1)

\* group(1) of the match at i: \s* takes the longest run that still lets the
\* rest match, (.*?) the shortest text up to a closing fence
FenceGroup(s, i) ==
    LET w == Max({v \in 0..WsRun(s, i + 6) : ClosesFrom(s, i + 6 + v) # {}})
        e == Min(ClosesFrom(s, i + 6 + w))
    IN  SubSeq(s, i + 6 + w, e - 1)

\* extract_sql(text): re.search takes the leftmost position that matches
extract_sql(text) ==
    IF \E i \in 1..Len(text) : FenceMatchesAt(text, i)
    THEN Strip(FenceGroup(text, Min({i \in 1..Len(text) : FenceMatchesAt(text, i)})))
    ELSE Strip(text)

MaxRawAtoms == 6

RawAtoms == {
    <<Backtick,Backtick,Backtick>>,
    <<"s","q","l">>,
    <<"S","Q","L">>,
    <<"\n">>,
    <<"x">> }

ExFencedSelect == <<Backtick,Backtick,Backtick,"s","q","l","\n","S","E","L","E","C","T"," ","1","\n",Backtick,Backtick,Backtick>>
ExProseAroundFence == <<"H","e","r","e",":","\n",Backtick,Backtick,Backtick,"S","Q","L","\n","s","e","l","e","c","t"," ","1",";","\n",Backtick,Backtick,Backtick,"\n","D","o","n","e"," ",Backtick,Backtick,Backtick,"x",Backtick,Backtick,Backtick>>

RawTexts == TextsOver(RawAtoms, MaxRawAtoms) \cup {ExFencedSelect, ExProseAroundFence}

InitExtract ==
    /\ xIn \in RawTexts
    /\ xOut = <<>>
    /\ xpc = "start"
    /\ GateIdle /\ AskIdle /\ QueryIdle

ExtractSql ==
    /\ xpc = "start"
    /\ xOut' = extract_sql(xIn)
    /\ xpc' = "extracted"
    /\ UNCHANGED <<xIn, gateVars, askVars, queryVars>>

NextExtract == ExtractSql

SpecExtract == InitExtract /\ [][NextExtract]_vars

(***************************************************************************)
(* The "Ask Questions" page                                                 *)
(***************************************************************************)
MaxAskAtoms == 3

AskAtoms == {
    <<Backtick,Backtick,Backtick,"s","q","l">>,
    <<Backtick,Backtick,Backtick>>,
    <<"S","E","L","E","C","T">>,
    <<"D","R","O","P">>,
    <<" ">>,
    <<";">> }

\* what the language model may answer
ModelOutputs == TextsOver(AskAtoms, MaxAskAtoms) \cup {ExFencedSelect, ExTwoSelects, ExStackedDrop}

Questions == {"", "show the rows"}

\* str(e) of what pd.read_sql and co.generate raise
DriverErrors == {"Execution failed on sql: no such table"}
ApiErrors == {"cohere request failed"}

\* st.code(sql, language="sql")
ShowCode(s) == [call |-> "st.code", label |-> "", text |-> s]

\* except Exception as e: st.error(f"Error: {e}")
ShowError(msg) == [call |-> "st.error", label |-> "Error: ", text |-> msg]

\* the except clause: it ends the run, whatever raised
Handle(cause, msg) ==
    /\ shown' = ShowError(msg)
    /\ seen' = seen \cup {[cause |-> cause, call |-> ShowError(msg).call,
                           label |-> ShowError(msg).label]}
    /\ apc' = "done"

InitAsk ==
    /\ question = ""
    /\ raw = <<>>
    /\ sql = <<>>
    /\ verdict = None
    /\ executed = <<>>
    /\ shown = NothingShown
    /\ seen = {}
    /\ apc = "idle"
    /\ GateIdle /\ ExtractIdle /\ QueryIdle

\* if st.button("Generate SQL & Run") and question: a new script run
Click ==
    /\ apc \in {"idle", "done"}
    /\ \E q \in Questions :
          /\ q # ""
          /\ question' = q
    /\ raw' = <<>>
    /\ sql' = <<>>
    /\ verdict' = None
    /\ executed' = <<>>
    /\ shown' = NothingShown
    /\ apc' = "schema"
    /\ UNCHANGED <<seen, gateVars, extractVars, queryVars>>

\* the schema loop: fixed statements on sqlite_master and PRAGMA table_info
ReadSchema ==
    /\ apc = "schema"
    /\ \/ /\ apc' = "generate"
          /\ UNCHANGED <<shown, seen>>
       \/ \E m \in DriverErrors : Handle("schema", m)
    /\ UNCHANGED <<question, raw, sql, verdict, executed, gateVars, extractVars, queryVars>>

\* sql = generate_sql_cohere(question, schema_text)
GenerateSql ==
    /\ apc = "generate"
    /\ \/ \E text \in ModelOutputs :
             /\ raw' = text
             /\ sql' = extract_sql(text)
             /\ apc' = "enforce"
             /\ UNCHANGED <<shown, seen>>
       \/ /\ \E m \in ApiErrors : Handle("api", m)
          /\ UNCHANGED <<raw, sql>>
    /\ UNCHANGED <<question, verdict, executed, gateVars, extractVars, queryVars>>

\* the gate called with its ValueError swallowed
EnforceAndShowLenient ==
    /\ apc = "enforce"
    /\ verdict' = enforce_read_only(sql)
    /\ sql' = IF verdict'.ok THEN verdict'.sql ELSE sql
    /\ shown' = ShowCode(sql')
    /\ apc' = "read"
    /\ UNCHANGED <<seen, question, raw, executed, gateVars, extractVars, queryVars>>

\* sql = enforce_read_only(sql); st.subheader(...); st.code(sql, language="sql")
EnforceAndShow ==
    /\ apc = "enforce"
    /\ verdict' = enforce_read_only(sql)
    /\ IF verdict'.ok
       THEN /\ sql' = verdict'.sql
            /\ shown' = ShowCode(verdict'.sql)
            /\ apc' = "read"
            /\ UNCHANGED seen
       ELSE /\ Handle("reject", verdict'.err)
            /\ UNCHANGED sql
    /\ UNCHANGED <<question, raw, executed, gateVars, extractVars, queryVars>>

\* df_result = pd.read_sql(sql, conn), and the empty-result branch
ReadSql ==
    /\ apc = "read"
    /\ executed' = Append(executed, sql)
    /\ \/ /\ apc' = "results"
          /\ shown' = [call |-> "st.dataframe", label |-> "Query Results", text |-> sql]
          /\ UNCHANGED seen
       \/ /\ apc' = "done"
          /\ shown' = [call |-> "st.info", label |-> "No results found", text |-> <<>>]
          /\ UNCHANGED seen
       \/ \E m \in DriverErrors : Handle("driver", m)
    /\ UNCHANGED <<question, raw, sql, verdict, gateVars, extractVars, queryVars>>

\* the data story, the suggested queries and the charts
ShowResults ==
    /\ apc = "results"
    /\ \/ /\ apc' = "done"
          /\ shown' = [call |-> "st.plotly_chart", label |-> "", text |-> <<>>]
          /\ UNCHANGED seen
       \/ \E m \in ApiErrors : Handle("api", m)
    /\ UNCHANGED <<question, raw, sql, verdict, executed, gateVars, extractVars, queryVars>>

NextAsk == Click \/ ReadSchema \/ GenerateSql \/ EnforceAndShow \/ ReadSql \/ ShowResults

SpecAsk == InitAsk /\ [][NextAsk]_vars

(***************************************************************************)
(* The "Query" tab: is_select_only and fetch_all                            *)
(***************************************************************************)
Lower(s) == [i \in 1..Len(s) |-> LowerChar(s[i])]

KwSelectLower == <<"s","e","l","e","c","t">>

\* is_select_only without the test for stacked statements
is_select_only_prefix(query) ==
    LET q == Strip(Lower(query))
    IN  MatchExactAt(q, 1, KwSelectLower)

\* is_select_only(query)
is_select_only(query) ==
    LET q == Strip(Lower(query))
    IN  /\ MatchExactAt(q, 1, KwSelectLower)
        /\ \A i \in 7..Len(q) : q[i] # ";"

MaxQueryAtoms == 4

QueryAtoms == {
    <<"S","E","L","E","C","T">>,
    <<"s","e","l","e","c","t">>,
    <<"D","R","O","P">>,
    <<" ">>, <<";">>, <<"x">> }

\* the default text of the text area
DefaultQuery == <<"S","E","L","E","C","T"," ","*"," ","F","R","O","M"," ","s","q","l","i","t","e","_","m","a","s","t","e","r"," ","L","I","M","I","T"," ","1","0">>

QueryTexts == TextsOver(QueryAtoms, MaxQueryAtoms) \cup {DefaultQuery}

OnlySelectMessage == "Only single SELECT statements are allowed here for safety."

\* the text in the text area when Run is pressed
InitQuery ==
    /\ qText \in QueryTexts
    /\ fetched = <<>>
    /\ qShown = "nothing"
    /\ qpc = "idle"
    /\ GateIdle /\ ExtractIdle /\ AskIdle

\* if st.button("Run"): the branch on is_select_only(q)
Run ==
    /\ qpc = "idle"
    /\ IF is_select_only(qText)
       THEN /\ fetched' = Append(fetched, qText)
            /\ qShown' \in {"st.dataframe", "sqlite3.Error"}
       ELSE /\ fetched' = fetched
            /\ qShown' = OnlySelectMessage
    /\ qpc' = "ran"
    /\ UNCHANGED <<qText, gateVars, extractVars, askVars>>

NextQuery == Run

SpecQuery == InitQuery /\ [][NextQuery]_vars

(***************************************************************************)
(* Vocabulary of the properties, stated on the text itself                  *)
(***************************************************************************)
\* w (upper case) is spelled in s from position i on, in any letter case
SpelledAt(s, i, w) ==
    /\ i + Len(w) - 1 <= Len(s)
    /\ \A k \in 1..Len(w) : Fold(s[i + k - 1]) = w[k]

\* the n characters from position i on have no identifier character next to them
StandsAlone(s, i, n) ==
    /\ i = 1 \/ s[i - 1] \notin WordChars
    /\ i + n - 1 = Len(s) \/ s[i + n] \notin WordChars

\* some forbidden keyword is a whole word of s
KeywordAsWord(s) ==
    \E w \in ForbiddenKeywords : \E i \in 1..Len(s) :
        SpelledAt(s, i, w) /\ StandsAlone(s, i, Len(w))

\* some forbidden keyword is spelled in s, as a word or inside an identifier
KeywordSpelled(s) ==
    \E w \in ForbiddenKeywords : \E i \in 1..Len(s) : SpelledAt(s, i, w)

\* a ';' or a '$$' stands directly between two identifier characters
SeparatorInsideWord(s) ==
    \/ \E i \in 2..(Len(s) - 1) :
          s[i] = ";" /\ s[i - 1] \in WordChars /\ s[i + 1] \in WordChars
    \/ \E i \in 2..(Len(s) - 2) :
          /\ s[i] = "$" /\ s[i + 1] = "$"
          /\ s[i - 1] \in WordChars /\ s[i + 2] \in WordChars

\* first position of s that is not whitespace (Len(s) + 1 when there is none)
FirstInk(s) ==
    IF \E i \in 1..Len(s) : s[i] \notin WS
    THEN CHOOSE i \in 1..Len(s) : s[i] \notin WS /\ \A j \in 1..(i - 1) : s[j] \in WS
    ELSE Len(s) + 1

\* last position of s that is not whitespace (0 when there is none)
LastInk(s) ==
    IF \E i \in 1..Len(s) : s[i] \notin WS
    THEN CHOOSE i \in 1..Len(s) : s[i] \notin WS /\ \A j \in (i + 1)..Len(s) : s[j] \in WS
    ELSE 0

\* s begins, after leading whitespace, with the whole word SELECT
BeginsWithSelectWord(s) ==
    /\ SpelledAt(s, FirstInk(s), KwSELECT)
    /\ FirstInk(s) + 5 = Len(s) \/ s[FirstInk(s) + 6] \notin WordChars

\* s has a whole word LIMIT
LimitAsWord(s) ==
    \E i \in 1..Len(s) : SpelledAt(s, i, KwLIMIT) /\ StandsAlone(s, i, Len(KwLIMIT))

\* a ';' of s is somewhere else than at the last non-whitespace position
MisplacedSeparator(s) == \E i \in 1..Len(s) : s[i] = ";" /\ i # LastInk(s)

GateRan == gpc # "start"
Rejected(out, msg) == ~out.ok /\ out.err = msg /\ out.sql = <<>>

(***************************************************************************)
(* Properties of enforce_read_only                                          *)
(***************************************************************************)
\* C1: a text holding a forbidden keyword as a whole word, in any letter case
\* and at any position, is rejected with the forbidden-keyword reason and no
\* statement is returned, whatever else is wrong with the text.
C1_ForbiddenKeywordRejected ==
    (GateRan /\ KeywordAsWord(gIn)) => Rejected(gOut, ErrForbidden)

C1_Witness ==
    /\ gpc = "validated"
    /\ gIn = ExStackedDrop
    /\ Count(gIn, ";") = 1
    /\ ~BeginsWithSelectWord(SubSeq(gIn, 17, Len(gIn)))
    /\ Rejected(gOut, ErrForbidden)

\* C2: a text with a ';' anywhere but at its last non-whitespace position is
\* rejected, and a returned statement has no ';' except at that position.
C2_NoMisplacedSeparatorAccepted ==
    GateRan =>
        /\ MisplacedSeparator(gIn) => ~gOut.ok
        /\ gOut.ok => ~MisplacedSeparator(gOut.sql)

\* C3 as claimed: a text not beginning with the whole word SELECT is rejected,
\* with the not-a-select reason when it has no forbidden keyword and at most
\* one ';'.
C3_NotSelectReasonAsClaimed ==
    (GateRan /\ ~BeginsWithSelectWord(gIn)) =>
        /\ ~gOut.ok
        /\ (~KeywordAsWord(gIn) /\ Count(gIn, ";") <= 1) => Rejected(gOut, ErrNotSelect)

\* C3 amended: a text not beginning with the whole word SELECT is rejected and
\* no statement is returned; the reason is the not-a-select one when the text
\* has no forbidden keyword as a whole word, no ';' or '$$' directly between
\* two identifier characters, and at most one ';'.
C3_NotSelectRejected ==
    (GateRan /\ ~BeginsWithSelectWord(gIn)) =>
        /\ ~gOut.ok /\ gOut.sql = <<>>
        /\ (~KeywordAsWord(gIn) /\ ~SeparatorInsideWord(gIn) /\ Count(gIn, ";") <= 1)
              => Rejected(gOut, ErrNotSelect)

C3_Witness ==
    /\ gpc = "validated"
    /\ gIn = <<"S","E","L","E","C","T","x",";">>
    /\ Rejected(gOut, ErrNotSelect)

\* C5: an accepted text without a whole word LIMIT is returned as the text up
\* to its trailing whitespace and its trailing ';', then " LIMIT 100"; an
\* accepted text with a whole word LIMIT is returned character for character.
C5_OnlyLimitAppended ==
    (GateRan /\ gOut.ok) =>
        IF LimitAsWord(gIn)
        THEN gOut.sql = gIn
        ELSE \E k \in 0..Len(gIn) :
                /\ gOut.sql = SubSeq(gIn, 1, k) \o LimitSuffix
                /\ \A j \in (k + 1)..Len(gIn) : gIn[j] \in WS \cup {";"}
                /\ \A j \in (k + 2)..Len(gIn) : gIn[j] \in WS
                /\ k = Len(gIn) \/ gIn[k + 1] = ";" \/ k = 0 \/ gIn[k] \notin WS
                /\ k = 0 \/ gIn[k] # ";"

C5_Witness ==
    /\ gpc = "validated"
    /\ gIn = ExOrders
    /\ gOut = Return(ExOrders \o LimitSuffix)

\* C6: validating a returned statement again returns the same statement.
C6_Idempotent ==
    gpc = "revalidated" => (gOut2.ok /\ gOut2.sql = gOut.sql)

C6_Witness ==
    /\ gpc = "revalidated"
    /\ gIn = <<"s","e","l","e","c","t"," ","x",";">>
    /\ gOut.sql = <<"s","e","l","e","c","t"," ","x">> \o LimitSuffix
    /\ gOut2 = gOut

\* C7 as claimed: a text in which forbidden keywords are spelled only inside
\* larger identifiers is not rejected with the forbidden-keyword reason.
C7_EmbeddedKeywordAsClaimed ==
    (GateRan /\ KeywordSpelled(gIn) /\ ~KeywordAsWord(gIn)) => gOut.err # ErrForbidden

\* C7 amended: a text in which forbidden keywords are spelled only inside
\* larger identifiers, and in which no ';' or '$$' stands directly between two
\* identifier characters, is not rejected with the forbidden-keyword reason;
\* "SELECT create_date FROM events" is returned with " LIMIT 100" appended.
C7_EmbeddedKeywordPasses ==
    /\ (GateRan /\ KeywordSpelled(gIn) /\ ~KeywordAsWord(gIn) /\ ~SeparatorInsideWord(gIn))
          => gOut.err # ErrForbidden
    /\ (GateRan /\ gIn = ExCreateDate) => gOut = Return(ExCreateDate \o LimitSuffix)

C7_Witness ==
    /\ gpc = "validated"
    /\ gIn = ExCreateDate
    /\ gOut = Return(ExCreateDate \o LimitSuffix)

(***************************************************************************)
(* Properties of extract_sql                                                *)
(***************************************************************************)
\* s without its leading and trailing whitespace
Trim(s) == SubSeq(s, FirstInk(s), LastInk(s))

\* a fence tagged sql, in any letter case, opens at position i
OpensAt(s, i) == SpelledAt(s, i, <<Backtick, Backtick, Backtick, "S", "Q", "L">>)

\* three backticks stand at position j
ClosesAt(s, j) ==
    /\ j + 2 <= Len(s)
    /\ s[j] = Backtick /\ s[j + 1] = Backtick /\ s[j + 2] = Backtick

\* the fence opened at i is closed later
ClosedFenceAt(s, i) == OpensAt(s, i) /\ \E j \in (i + 6)..Len(s) : ClosesAt(s, j)

\* C8: the result is the trimmed interior of the first sql fence that is
\* closed, and the trimmed text when there is no such fence.
C8_ExtractSlices ==
    xpc = "extracted" =>
        IF \E i \in 1..Len(xIn) : ClosedFenceAt(xIn, i)
        THEN \E i \in 1..Len(xIn) : \E j \in (i + 6)..Len(xIn) :
                /\ ClosedFenceAt(xIn, i)
                /\ \A h \in 1..(i - 1) : ~ClosedFenceAt(xIn, h)
                /\ ClosesAt(xIn, j)
                /\ \A h \in (i + 6)..(j - 1) : ~ClosesAt(xIn, h)
                /\ xOut = Trim(SubSeq(xIn, i + 6, j - 1))
        ELSE xOut = Trim(xIn)

C8_Witness ==
    /\ xpc = "extracted"
    /\ xIn = ExFencedSelect
    /\ xOut = <<"S","E","L","E","C","T"," ","1">>

(***************************************************************************)
(* Properties of the "Ask Questions" page                                   *)
(***************************************************************************)
\* C4: a statement is handed to pd.read_sql only once enforce_read_only has
\* returned for the extracted model output, and it is the statement returned;
\* after a rejection nothing is executed and the run ends in the error branch.
C4_ExecutedOnlyAfterGate ==
    /\ apc \in {"idle", "schema", "generate", "enforce"} => executed = <<>>
    /\ executed # <<>> =>
          /\ verdict = enforce_read_only(extract_sql(raw))
          /\ verdict.ok
          /\ executed = <<verdict.sql>>
    /\ (verdict # None /\ ~verdict.ok) =>
          /\ executed = <<>>
          /\ apc = "done"
          /\ shown = ShowError(verdict.err)

C4_Witness ==
    /\ apc = "results"
    /\ raw = ExFencedSelect
    /\ verdict.ok
    /\ executed = <<<<"S","E","L","E","C","T"," ","1">> \o LimitSuffix>>

\* C9: a rejection by the gate and a failure of the driver are never displayed
\* through the same kind of outcome.
C9_RejectionAndFailureDistinct ==
    \A a \in seen : \A b \in seen :
        (a.cause = "reject" /\ b.cause = "driver") =>
            <<a.call, a.label>> # <<b.call, b.label>>

(***************************************************************************)
(* Properties of the "Query" tab                                            *)
(***************************************************************************)
\* the trimmed text begins with SELECT in any letter case and holds no ';'
SingleSelect(s) ==
    /\ SpelledAt(s, FirstInk(s), KwSELECT)
    /\ \A i \in 1..Len(s) : s[i] # ";"

\* C10: the text is handed to fetch_all exactly when it begins with SELECT and
\* holds no ';'; any other text gets the only-single-SELECT error and no call.
C10_QueryTabSelectOnly ==
    qpc = "ran" =>
        IF SingleSelect(qText)
        THEN fetched = <<qText>> /\ qShown # OnlySelectMessage
        ELSE fetched = <<>> /\ qShown = OnlySelectMessage

C10_Witness ==
    /\ qpc = "ran"
    /\ qText = <<"S","E","L","E","C","T",";","D","R","O","P">>
    /\ fetched = <<>>
    /\ qShown = OnlySelectMessage

====
